---- MODULE Spec2Model ----
(***************************************************************************)
(* A model of watermark.py: the batch driver (main), the per-file unit     *)
(* (process_image_file), the directory scan (is_image_file, is_subpath)    *)
(* and the geometry, alpha and colour-mode logic of add_text_watermark.    *)
(*                                                                         *)
(* A file name is a sequence of one-character strings, a path a sequence   *)
(* of names, so that Path.suffix and str.lower() are computed, not         *)
(* assumed.  The file system maps every existing path to its kind.         *)
(***************************************************************************)
EXTENDS Integers, Sequences, FiniteSets, TLC

VARIABLES fs, args, pc, cur, pairs, stdout, total, ok, exit, raisedAt,
          lastSave, wmIn, wmOut

vars == <<fs, args, pc, cur, pairs, stdout, total, ok, exit, raisedAt,
          lastSave, wmIn, wmOut>>

Null == "null"

(***************************************************************************)
(* Bounds of the model.                                                    *)
(***************************************************************************)
\* at most this many of the candidate entries exist under the input
\* directory when the run starts
MaxFiles == 5

\* stored image width and height range over 1..MaxDim
MaxDim == 4

\* the measured text box is at most MaxText pixels wide and high
MaxText == 1

\* a rotated text raster is at most MaxRaster pixels wide and high
MaxRaster == 3

\* opacities are the multiples of 1/OpacityDen (with 16 they are exact
\* binary fractions, so 255 * opacity is computed without rounding error)
OpacityDen == 16

(***************************************************************************)
(* Strings: str.lower() and Path.suffix                                    *)
(***************************************************************************)
UpperChars == <<"A","B","C","D","E","F","G","H","I","J","K","L","M",
                "N","O","P","Q","R","S","T","U","V","W","X","Y","Z">>

LowerChars == <<"a","b","c","d","e","f","g","h","i","j","k","l","m",
                "n","o","p","q","r","s","t","u","v","w","x","y","z">>

\* str.lower() on each upper-case letter
LowerTable ==
    [c \in { UpperChars[i] : i \in 1..Len(UpperChars) } |->
        LowerChars[CHOOSE i \in 1..Len(UpperChars) : UpperChars[i] = c]]

\* str.lower() on one character: other characters are kept
LowerChar(c) == IF c \in DOMAIN LowerTable THEN LowerTable[c] ELSE c

\* str.lower()
Lower(s) == [i \in 1..Len(s) |-> LowerChar(s[i])]

\* str.rfind("."): the index of the last dot, 0 when there is none
\* (Python's -1 and 0 both mean "no suffix" to Path.suffix)
RFindDot(name) ==
    IF \E i \in 1..Len(name) : name[i] = "."
    THEN CHOOSE i \in 1..Len(name) :
            /\ name[i] = "."
            /\ \A j \in (i+1)..Len(name) : name[j] # "."
    ELSE 0

\* pathlib's PurePath.suffix: the last component from its last dot on, empty
\* when the dot is the first or the last character or there is none
Suffix(p) ==
    IF Len(p) = 0 THEN <<>>
    ELSE LET name == p[Len(p)]
             i    == RFindDot(name)
         IN  IF 1 < i /\ i < Len(name)
             THEN SubSeq(name, i, Len(name))
             ELSE <<>>

ALLOWED_EXTS ==
    { <<".","j","p","g">>, <<".","j","p","e","g">>, <<".","p","n","g">>,
      <<".","w","e","b","p">>, <<".","b","m","p">>, <<".","t","i","f">>,
      <<".","t","i","f","f">> }

JPEG_EXTS == { <<".","j","p","g">>, <<".","j","p","e","g">> }

(***************************************************************************)
(* Paths                                                                   *)
(***************************************************************************)
IsPrefix(a, b) == Len(a) <= Len(b) /\ SubSeq(b, 1, Len(a)) = a

\* the path and all its ancestors below the root
Prefixes(p) == { SubSeq(p, 1, i) : i \in 1..Len(p) }

Parent(p) == SubSeq(p, 1, Len(p) - 1)

\* PurePath.relative_to: defined only when base is a prefix (else ValueError)
RelativeTo(p, base) == SubSeq(p, Len(base) + 1, Len(p))

N_in          == <<"i","n">>
N_out         == <<"o","u","t">>
N_watermarked == <<"w","a","t","e","r","m","a","r","k","e","d">>
N_sub         == <<"s","u","b",".","b","m","p">>
N_a           == <<"a",".","j","p","g">>
N_b           == <<"b",".","P","N","G">>
N_c           == <<"c",".","J","p","e","g">>
N_old         == <<"o","l","d",".","j","p","g">>
N_notes       == <<"n","o","t","e","s",".","t","x","t">>
N_hidden      == <<".","p","n","g">>
N_ln          == <<"l","n",".","p","n","g">>

InputPath  == <<N_in>>
OutPath    == <<N_out>>
LinkTarget == <<N_in, N_watermarked, N_old>>

\* what may exist under the input directory when the run starts
Candidates ==
    { [path |-> <<N_in, N_a>>,                  kind |-> "file"],
      [path |-> <<N_in, N_b>>,                  kind |-> "file"],
      [path |-> <<N_in, N_notes>>,              kind |-> "file"],
      [path |-> <<N_in, N_hidden>>,             kind |-> "file"],
      [path |-> <<N_in, N_sub, N_c>>,           kind |-> "file"],
      [path |-> <<N_in, N_watermarked, N_old>>, kind |-> "file"],
      [path |-> <<N_in, N_ln>>,                 kind |-> "link"] }

Exists(f, p) == p \in DOMAIN f

\* Path.resolve(): follows a symbolic link (links are leaves, to LinkTarget)
Resolve(f, p) == IF Exists(f, p) /\ f[p] = "link" THEN LinkTarget ELSE p

\* Path.is_file(): a regular file, or a link to one
IsFile(f, p) ==
    /\ Exists(f, p)
    /\ \/ f[p] = "file"
       \/ f[p] = "link" /\ Exists(f, LinkTarget) /\ f[LinkTarget] = "file"

\* Path.is_dir()
IsDir(f, p) == Exists(f, p) /\ f[p] = "dir"

\* Path.mkdir(parents=True, exist_ok=True): fails when the path or an
\* ancestor exists and is no directory, else creates what is missing
MkdirOk(f, d) == \A q \in Prefixes(d) : Exists(f, q) => f[q] = "dir"

MkdirP(f, d) ==
    [q \in (DOMAIN f) \cup Prefixes(d) |-> IF Exists(f, q) THEN f[q] ELSE "dir"]

\* the file system with a regular file at p (created or overwritten)
WriteFile(f, p) ==
    [q \in (DOMAIN f) \cup {p} |-> IF q = p THEN "file" ELSE f[q]]

(***************************************************************************)
(* The directory scan                                                      *)
(***************************************************************************)
\* the suffix test without the lower()
is_image_file_cased(f, p) == IsFile(f, p) /\ Suffix(p) \in ALLOWED_EXTS

\* is_image_file(p), on the file system f
is_image_file(f, p) == IsFile(f, p) /\ Lower(Suffix(p)) \in ALLOWED_EXTS

\* the scan without the resolve(): a path is compared as it is spelled
is_subpath_unresolved(f, path, parent) == IsPrefix(parent, path)

\* is_subpath(path, parent): relative_to succeeds exactly on a prefix
\* (path = parent included), and any exception means "no"
is_subpath(f, path, parent) == IsPrefix(Resolve(f, parent), Resolve(f, path))

\* input_dir = Path(args.input).resolve()
input_dir == InputPath

\* output_dir: the resolved --output, else input_dir / "watermarked"
output_dir ==
    CASE args.output = "default" -> input_dir \o <<N_watermarked>>
      [] args.output = "out"     -> OutPath
      [] args.output = "in"      -> InputPath

\* input_dir.rglob("*"), or input_dir.glob("*") under --no-recursive
Globbed(f) ==
    IF args.no_recursive
    THEN { p \in DOMAIN f : IsPrefix(input_dir, p) /\ Len(p) = Len(input_dir) + 1 }
    ELSE { p \in DOMAIN f : IsPrefix(input_dir, p) /\ Len(p) > Len(input_dir) }

\* the sources the generator has yielded so far
Yielded == { pairs[i].src : i \in 1..Len(pairs) }

\* what the generator expression `files` can yield next
Pending(f) ==
    { p \in Globbed(f) :
        /\ p \notin Yielded
        /\ is_image_file(f, p)
        /\ ~ is_subpath(f, p, output_dir) }

(***************************************************************************)
(* add_text_watermark: geometry and alpha                                  *)
(***************************************************************************)
Max(a, b) == IF a >= b THEN a ELSE b
Min(a, b) == IF a <= b THEN a ELSE b

\* int(num / den) for den > 0: Python's int() truncates towards zero
Trunc(num, den) == IF num >= 0 THEN num \div den ELSE -((-num) \div den)

\* the size with the two sides never exchanged
exif_transpose_noswap(size, orient) == size

\* ImageOps.exif_transpose: orientations 5..8 (transpose, rotate 270,
\* transverse, rotate 90) exchange width and height; 2..4 and an absent or
\* unknown tag (0) keep them
exif_transpose(size, orient) ==
    IF orient \in 5..8 THEN <<size[2], size[1]>> ELSE size

\* size = max(12, int(min(w, h) * scale)), scale = s[1] / s[2]
FontSize(w, h, s) == Max(12, Trunc(Min(w, h) * s[1], s[2]))

\* margin = int(min(w, h) * margin_ratio), margin_ratio = m[1] / m[2]
Margin(w, h, m) == Trunc(Min(w, h) * m[1], m[2])

\* round(num / den) for num >= 0, den > 0: the nearest integer, a tie going
\* to the even neighbour
Round(num, den) ==
    LET q == num \div den
        r == num % den
    IN  IF 2 * r > den \/ (2 * r = den /\ q % 2 = 1) THEN q + 1 ELSE q

\* the alpha rounded to the nearest integer instead of truncated
Alpha_rounded(n) ==
    Max(0, Min(255, IF n >= 0 THEN Round(255 * n, OpacityDen)
                              ELSE -Round(255 * (-n), OpacityDen)))

\* alpha = max(0, min(255, int(255 * opacity))), opacity = n / OpacityDen
Alpha(n) == Max(0, Min(255, Trunc(255 * n, OpacityDen)))

\* shadow_alpha = max(0, min(255, int(alpha * 0.5)))
ShadowAlpha(alpha) == Max(0, Min(255, Trunc(alpha, 2)))

\* padding = max(2, int(size * 0.2))
Padding(size) == Max(2, Trunc(size, 5))

\* text_img.rotate(angle, expand=True): angle 0 returns a copy; any other
\* angle gives the box the resampler computes, here the environment's `rot`
Rotated(box, angle, rot) == IF angle % 360 = 0 THEN box ELSE rot

\* the offset without the clamp
PasteOffset_unclamped(w, h, rw, rh, margin) == <<w - rw - margin, h - rh - margin>>

\* x = max(0, w - rotated.width - margin); y likewise
PasteOffset(w, h, rw, rh, margin) ==
    <<Max(0, w - rw - margin), Max(0, h - rh - margin)>>

\* Image.alpha_composite(base, txt_layer): both must have one size (else
\* ValueError, here the empty tuple); the result has it
AlphaCompositeSize(baseSize, layerSize) ==
    IF baseSize = layerSize THEN baseSize ELSE <<>>

\* mode restoration with the conversion of an unusual mode unguarded
RestoreMode_unguarded(mode, convertible) ==
    IF mode = "RGBA" THEN [raised |-> FALSE, mode |-> "RGBA"]
    ELSE IF convertible
         THEN [raised |-> FALSE, mode |-> IF mode \in {"RGB", "L"} THEN mode ELSE "RGB"]
         ELSE [raised |-> TRUE, mode |-> Null]

(***************************************************************************)
(* add_text_watermark: the colour mode of the result                       *)
(***************************************************************************)
\* "P" (palette) stands for every mode other than RGBA, RGB and L
Modes == {"RGBA", "RGB", "L", "P"}

\* mode restoration; `convertible` says whether Image.convert succeeds
RestoreMode(mode, convertible) ==
    IF mode = "RGBA" THEN [raised |-> FALSE, mode |-> "RGBA"]
    ELSE IF mode \in {"RGB", "L"}
         THEN IF convertible THEN [raised |-> FALSE, mode |-> mode]
                             ELSE [raised |-> TRUE,  mode |-> Null]
    ELSE IF convertible THEN [raised |-> FALSE, mode |-> "RGB"]
                        ELSE [raised |-> FALSE, mode |-> "RGBA"]

\* add_text_watermark(img, ...): img = [W, H, mode, orient] as stored in the
\* file; p = the caller's parameters; env = what the text rasteriser, the
\* resampler and the converter answer
add_text_watermark(img, p, env) ==
    LET t      == exif_transpose(<<img.W, img.H>>, img.orient)
        w      == t[1]
        h      == t[2]
        size   == FontSize(w, h, p.scale)
        margin == Margin(w, h, p.margin_ratio)
        alpha  == Alpha(p.opacity)
        shadow == ShadowAlpha(alpha)
        pad    == Padding(size)
        box    == <<env.tw + 2 * pad, env.th + 2 * pad>>
        rot    == Rotated(box, p.angle, env.rot)
        xy     == PasteOffset(w, h, rot[1], rot[2], margin)
        comb   == AlphaCompositeSize(<<w, h>>, <<w, h>>)
        back   == RestoreMode(img.mode, env.convertible)
    IN  [raised |-> back.raised \/ Len(comb) = 0,
         size |-> comb, mode |-> back.mode,
         w |-> w, h |-> h, margin |-> margin,
         rw |-> rot[1], rh |-> rot[2], x |-> xy[1], y |-> xy[2],
         alpha |-> alpha, shadow_alpha |-> shadow,
         convertible |-> env.convertible]

(***************************************************************************)
(* process_image_file                                                      *)
(***************************************************************************)
\* What the environment decides about one file: its colour mode, and which
\* step, if any, fails: Image.open (unreadable or corrupt), the conversion
\* inside add_text_watermark, the flattening to RGB, or the encoder in save.
ImageFacts ==
    [mode : Modes, fault : {"none", "open", "convert", "flatten", "save"}]

\* the JPEG test with the suffix compared as it is spelled
IsJpegSource_exact(in_path) == Suffix(in_path) \in JPEG_EXTS

\* ext = in_path.suffix.lower(); ext in {".jpg", ".jpeg"}
IsJpegSource(in_path) == Lower(Suffix(in_path)) \in JPEG_EXTS

Raise(f) == [raised |-> TRUE, fs |-> f, save |-> {}]

\* process_image_file(in_path, out_path, ...) on file system f: whether it
\* raised, the file system it leaves, and what was handed to Image.save
\* (a set: empty when save was not reached).
\* In the file systems modelled out_path never exists before the call, and
\* Image.save removes a file it created when the encoder fails, so a failed
\* save leaves no file.
process_image_file(f, in_path, out_path, im) ==
    IF ~ MkdirOk(f, Parent(out_path)) THEN Raise(f)
    ELSE
    LET f1 == MkdirP(f, Parent(out_path))
        wm == RestoreMode(im.mode, im.fault # "convert")
        jpeg == IsJpegSource(in_path)
        save_kwargs == IF jpeg THEN [quality |-> 90, optimize |-> TRUE] ELSE <<>>
        handed == [path   |-> out_path,
                   mode   |-> IF jpeg THEN "RGB" ELSE wm.mode,
                   kwargs |-> save_kwargs]
    IN  IF im.fault = "open" THEN Raise(f1)
        ELSE IF wm.raised THEN Raise(f1)
        ELSE IF jpeg /\ im.fault = "flatten" THEN Raise(f1)
        ELSE IF im.fault = "save" THEN Raise(f1)
        ELSE [raised |-> FALSE, fs |-> WriteFile(f1, out_path), save |-> {handed}]

(***************************************************************************)
(* main                                                                    *)
(***************************************************************************)
Line(k, a, b) == [k |-> k, a |-> a, b |-> b]

\* the tally that counts every attempt as a success
Tally_always(n, raised) == n + 1

\* ok += 1 is reached only when process_image_file returned
Tally(n, raised) == IF raised THEN n ELSE n + 1

\* the file systems a run can start from
InitialFs(inputKind, chosen, outKind) ==
    LET paths == UNION { Prefixes(c.path) : c \in chosen }
        kindOf(p) == IF \E c \in chosen : c.path = p
                     THEN (CHOOSE c \in chosen : c.path = p).kind
                     ELSE "dir"
        inTree == IF inputKind = "dir"
                  THEN [p \in paths \cup {InputPath} |-> kindOf(p)]
                  ELSE IF inputKind = "file" THEN (InputPath :> "file")
                  ELSE <<>>
        outTree == IF outKind = "none" THEN <<>> ELSE (OutPath :> outKind)
    IN  inTree @@ outTree

\* (what is at OutPath is left unset unless --output names it)
InitMain ==
    /\ args \in [output : {"default", "out", "in"}, no_recursive : BOOLEAN]
    /\ \E inputKind \in {"dir", "file", "none"}, outKind \in {"none", "dir", "file"} :
       \E chosen \in SUBSET Candidates :
          /\ Cardinality(chosen) <= MaxFiles
          /\ inputKind # "dir" => chosen = {}
          /\ outKind # "none" => args.output = "out"
          /\ fs = InitialFs(inputKind, chosen, outKind)
    /\ pc = "start"
    /\ cur = Null
    /\ pairs = <<>>
    /\ stdout = <<>>
    /\ total = 0
    /\ ok = 0
    /\ exit = "running"
    /\ raisedAt = {}
    /\ lastSave = {}

Init ==
    /\ InitMain
    /\ wmIn = Null
    /\ wmOut = Null

\* lines 118-120: the input is no existing directory: SystemExit
Abort ==
    /\ pc = "start"
    /\ ~ (Exists(fs, input_dir) /\ IsDir(fs, input_dir))
    /\ pc' = "exited"
    /\ exit' = "SystemExit"
    /\ UNCHANGED <<fs, args, cur, pairs, stdout, total, ok, raisedAt, lastSave,
                   wmIn, wmOut>>

\* line 123 raising (the output path or an ancestor is no directory):
\* nothing catches it, the interpreter ends with a traceback
MkdirCrash ==
    /\ pc = "start"
    /\ Exists(fs, input_dir) /\ IsDir(fs, input_dir)
    /\ ~ MkdirOk(fs, output_dir)
    /\ pc' = "exited"
    /\ exit' = "Traceback"
    /\ UNCHANGED <<fs, args, cur, pairs, stdout, total, ok, raisedAt, lastSave,
                   wmIn, wmOut>>

\* lines 118-131: the input is a directory; output directory made, counters zeroed
Start ==
    /\ pc = "start"
    /\ Exists(fs, input_dir) /\ IsDir(fs, input_dir)
    /\ MkdirOk(fs, output_dir)
    /\ fs' = MkdirP(fs, output_dir)
    /\ pc' = "loop"
    /\ total' = 0
    /\ ok' = 0
    /\ UNCHANGED <<args, cur, pairs, stdout, exit, raisedAt, lastSave, wmIn, wmOut>>

\* lines 125-133: the generator yields its next pair; total += 1.  The
\* generator is lazy: its filter is evaluated on the file system as it is
\* now, outputs of earlier iterations included, and it may come to the
\* paths in any order (the directory order is the operating system's).
\* (lastSave is what the call about to be made has handed to Image.save)
Yield ==
    /\ pc = "loop"
    /\ \E p \in Pending(fs) :
          /\ cur' = [src |-> p, dst |-> output_dir \o RelativeTo(p, input_dir)]
          /\ pairs' = Append(pairs, cur')
    /\ total' = total + 1
    /\ lastSave' = {}
    /\ pc' = "body"
    /\ UNCHANGED <<fs, args, stdout, ok, exit, raisedAt, wmIn, wmOut>>

\* lines 134-148: the loop body, the call returning
ProcessOk ==
    /\ pc = "body"
    /\ \E im \in ImageFacts :
          LET r == process_image_file(fs, cur.src, cur.dst, im)
          IN  /\ ~ r.raised
              /\ fs' = r.fs
              /\ lastSave' = r.save
    /\ ok' = Tally(ok, FALSE)
    /\ stdout' = Append(stdout, Line("ok", cur.src, cur.dst))
    /\ pc' = "loop"
    /\ cur' = Null
    /\ UNCHANGED <<args, pairs, total, exit, raisedAt, wmIn, wmOut>>

\* lines 134-148: the loop body, the call raising: caught and logged
ProcessFail ==
    /\ pc = "body"
    /\ \E im \in ImageFacts :
          LET r == process_image_file(fs, cur.src, cur.dst, im)
          IN  /\ r.raised
              /\ fs' = r.fs
    /\ ok' = Tally(ok, TRUE)
    /\ raisedAt' = raisedAt \cup {Len(pairs)}
    /\ stdout' = Append(stdout, Line("fail", cur.src, Null))
    /\ pc' = "loop"
    /\ cur' = Null
    /\ UNCHANGED <<args, pairs, total, exit, lastSave, wmIn, wmOut>>

\* line 150: the generator is exhausted (no path it can still reach passes
\* its filter); the summary; exit status 0
Finish ==
    /\ pc = "loop"
    /\ Pending(fs) = {}
    /\ stdout' = Append(stdout, Line("summary", <<ok, total>>, output_dir))
    /\ pc' = "exited"
    /\ exit' = "status0"
    /\ UNCHANGED <<fs, args, cur, pairs, total, ok, raisedAt, lastSave, wmIn, wmOut>>

Next ==
    \/ Abort
    \/ MkdirCrash
    \/ Start
    \/ Yield
    \/ ProcessOk
    \/ ProcessFail
    \/ Finish

Spec == Init /\ [][Next]_vars

(***************************************************************************)
(* add_text_watermark on its own: one call per behaviour, on every input   *)
(* of the bounded sets                                                     *)
(***************************************************************************)
Scales == { <<1, 32>>, <<4, 1>> }

MarginRatios == { <<-1, 2>>, <<0, 1>>, <<1, 2>> }

Angles == {0, 45}

Images == [W : 1..MaxDim, H : 1..MaxDim, mode : Modes, orient : 0..8]

\* every image under every geometry, at one opacity
GeometryParams ==
    [opacity : {5}, scale : Scales, margin_ratio : MarginRatios, angle : Angles]

\* every opacity of the grid, and some beyond [0, 1], at one geometry
AlphaParams ==
    [opacity : (0 - 2)..(OpacityDen + 2), scale : {<<1, 32>>},
     margin_ratio : {<<0, 1>>}, angle : {45}]

WmEnv(p) ==
    [tw : 0..MaxText, th : 0..MaxText,
     rot : IF p.angle % 360 = 0 THEN {<<0, 0>>}
                                ELSE (1..MaxRaster) \X (1..MaxRaster),
     convertible : BOOLEAN]

\* (the opacities beyond the one of GeometryParams are tried on the widest
\* images without an orientation tag)
InitWM ==
    /\ \E img \in Images, p \in GeometryParams \cup AlphaParams :
          /\ p \in AlphaParams \ GeometryParams => img.W = MaxDim /\ img.orient = 0
          /\ wmIn = [img |-> img, p |-> p]
    /\ wmOut = Null
    /\ fs = <<>>
    /\ args = [output |-> "default", no_recursive |-> FALSE]
    /\ pc = "watermark"
    /\ cur = Null
    /\ pairs = <<>>
    /\ stdout = <<>>
    /\ total = 0
    /\ ok = 0
    /\ exit = "running"
    /\ raisedAt = {}
    /\ lastSave = {}

\* the call returning an image
WmReturn ==
    /\ pc = "watermark"
    /\ \E env \in WmEnv(wmIn.p) :
          LET r == add_text_watermark(wmIn.img, wmIn.p, env)
          IN  /\ ~ r.raised
              /\ wmOut' = r
    /\ pc' = "returned"
    /\ UNCHANGED <<wmIn, fs, args, cur, pairs, stdout, total, ok, exit, raisedAt,
                   lastSave>>

\* the call raising
WmRaise ==
    /\ pc = "watermark"
    /\ \E env \in WmEnv(wmIn.p) :
          LET r == add_text_watermark(wmIn.img, wmIn.p, env)
          IN  /\ r.raised
              /\ wmOut' = r
    /\ pc' = "raised"
    /\ UNCHANGED <<wmIn, fs, args, cur, pairs, stdout, total, ok, exit, raisedAt,
                   lastSave>>

NextWM ==
    \/ WmReturn
    \/ WmRaise

SpecWM == InitWM /\ [][NextWM]_vars

(***************************************************************************)
(* Properties of main and process_image_file (under Spec)                  *)
(***************************************************************************)
\* the attempts whose status line has been printed
Attempted == IF pc = "body" THEN Len(pairs) - 1 ELSE Len(pairs)

PairSet == { pairs[i] : i \in 1..Len(pairs) }

\* C1: with N files enumerated and k of them raising inside
\* process_image_file, no exception leaves the loop body: every file is
\* attempted once, in the order enumerated, a raising call prints one failure
\* line and a returning call one success line, and the summary reports
\* (N - k)/N.
C1_PerFileBoundary ==
    LET N == Len(pairs)
        k == Cardinality(raisedAt)
    IN  /\ N > 0 => exit \in {"running", "status0"}
        /\ total = N
        /\ \A i, j \in 1..N : i # j => pairs[i].src # pairs[j].src
        /\ Len(stdout) = Attempted + (IF exit = "status0" THEN 1 ELSE 0)
        /\ \A i \in 1..Attempted :
              /\ stdout[i].a = pairs[i].src
              /\ stdout[i].k = IF i \in raisedAt THEN "fail" ELSE "ok"
        /\ exit = "status0" =>
              /\ stdout[N + 1].k = "summary"
              /\ stdout[N + 1].a = <<N - k, N>>

\* C1, witness: a finished run over three files, the second of which failed
C1_Witness ==
    /\ exit = "status0"
    /\ Len(pairs) = 3
    /\ raisedAt = {2}
    /\ stdout[4].a = <<2, 3>>

\* the allowed suffixes, for a comparison that ignores case
ExtsIgnoringCase == { Lower(e) : e \in ALLOWED_EXTS }

\* what the scan is to pair, of the paths in `scope`: regular files whose
\* suffix is an allowed one whatever its case, not resolving into the
\* output root, each with its mirrored destination
ExpectedPairs(scope) ==
    { [src |-> p, dst |-> output_dir \o SubSeq(p, Len(InputPath) + 1, Len(p))] :
        p \in { q \in scope :
                  /\ IsFile(fs, q)
                  /\ Lower(Suffix(q)) \in ExtsIgnoringCase
                  /\ ~ IsPrefix(output_dir, Resolve(fs, q)) } }

UnderInput == { p \in DOMAIN fs : IsPrefix(InputPath, p) /\ p # InputPath }

ChildrenOfInput == { p \in UnderInput : Len(p) = Len(InputPath) + 1 }

\* C2 (as stated): a finished scan has paired exactly the qualifying paths
\* under the input root, at any depth.
C2_AllUnderInput ==
    /\ PairSet \subseteq ExpectedPairs(UnderInput)
    /\ exit = "status0" => PairSet = ExpectedPairs(UnderInput)

\* C2 (amended): a finished scan has paired exactly the qualifying paths
\* among those it walks: everything under the input root, or with
\* --no-recursive only the input root's direct children; and it never pairs
\* anything else on the way.
C2_ScanPairs ==
    LET scope == IF args.no_recursive THEN ChildrenOfInput ELSE UnderInput
    IN  /\ PairSet \subseteq ExpectedPairs(scope)
        /\ exit = "status0" => PairSet = ExpectedPairs(scope)

\* C2, witness: output nested in the input, a non-image file and an image
\* already under the output directory present, three images paired
C2_Witness ==
    /\ exit = "status0"
    /\ args.output = "default"
    /\ Exists(fs, <<N_in, N_notes>>)
    /\ Exists(fs, <<N_in, N_watermarked, N_old>>)
    /\ Len(pairs) = 3
    /\ [src |-> <<N_in, N_sub, N_c>>, dst |-> <<N_in, N_watermarked, N_sub, N_c>>]
          \in PairSet

RegularFiles(f) == { p \in DOMAIN f : f[p] = "file" }

\* C3: a call of process_image_file that returns has written exactly one
\* file, at out_path, and a call that raises has left the file system as it
\* was.
C3_FailureLeavesFileSystem ==
    [][ /\ (ok' = ok + 1) =>
              RegularFiles(fs') \ RegularFiles(fs) = {cur.dst}
        /\ (raisedAt' # raisedAt) => fs' = fs ]_vars

\* C4: an input path that is no directory ends the run with an error before
\* anything is enumerated or printed, the default output directory not
\* made; and nothing else ends the run with an error.
C4_OnlyInvalidInputFails ==
    LET invalid == ~ (Exists(fs, InputPath) /\ fs[InputPath] = "dir")
    IN  /\ invalid =>
              /\ pc \in {"start", "exited"}
              /\ pc = "exited" => exit = "SystemExit"
              /\ pairs = <<>> /\ stdout = <<>> /\ total = 0
              /\ args.output = "default" => ~ Exists(fs, output_dir)
        /\ exit \in {"SystemExit", "Traceback"} => invalid

C10_OutputsApartFromSources ==
    /\ \A i \in 1..Len(pairs) :
          /\ IsPrefix(output_dir, pairs[i].dst)
          /\ ~ IsPrefix(output_dir, pairs[i].src)
          /\ ~ IsPrefix(output_dir, Resolve(fs, pairs[i].src))
    /\ \A i, j \in 1..Len(pairs) :
          /\ pairs[i].dst # pairs[j].src
          /\ pairs[i].dst # Resolve(fs, pairs[j].src)

\* C10, witness: output nested in the input; the first output is on disk,
\* under the input root, while the scan goes on and yields a second file
C10_Witness ==
    /\ args.output = "default"
    /\ ~ args.no_recursive
    /\ pc = "body"
    /\ Len(pairs) = 2
    /\ IsFile(fs, pairs[1].dst)
    /\ pairs[1].dst \in UnderInput

(***************************************************************************)
(* Properties of add_text_watermark (under SpecWM)                         *)
(***************************************************************************)
\* C5 (as stated): the returned image has the width and height of the image
\* passed in, whatever its orientation tag.
C5_SameSizeAsInput ==
    pc = "returned" => wmOut.size = <<wmIn.img.W, wmIn.img.H>>

\* C5 (amended): the returned image has the width and height of the
\* orientation-normalised input: those of the image passed in when it has no
\* orientation tag or one of 1..4, and those exchanged when the tag is one
\* of 5..8.
C5_SizeOfNormalisedInput ==
    pc = "returned" =>
        wmOut.size = IF wmIn.img.orient \in {5, 6, 7, 8}
                     THEN <<wmIn.img.H, wmIn.img.W>>
                     ELSE <<wmIn.img.W, wmIn.img.H>>

\* C5, witness: a grayscale 4 x 1 image tagged "rotate 90", watermarked at
\* 45 degrees, comes back 1 x 4
C5_Witness ==
    /\ pc = "returned"
    /\ wmIn.img = [W |-> 4, H |-> 1, mode |-> "L", orient |-> 6]
    /\ wmIn.p.angle = 45
    /\ wmOut.size = <<1, 4>>

\* C6: the paste offset is (max(0, w - rw - margin), max(0, h - rh - margin)):
\* never negative, and on each axis where raster plus margin fit, the raster
\* ends exactly margin pixels before the image's far edge.
C6_PasteOffsetClamped ==
    pc = "returned" =>
        LET dx == wmOut.w - wmOut.rw - wmOut.margin
            dy == wmOut.h - wmOut.rh - wmOut.margin
        IN  /\ wmOut.x >= 0 /\ wmOut.y >= 0
            /\ wmOut.x = (IF dx > 0 THEN dx ELSE 0)
            /\ wmOut.y = (IF dy > 0 THEN dy ELSE 0)
            /\ wmOut.rw + wmOut.margin <= wmOut.w =>
                  wmOut.x + wmOut.rw = wmOut.w - wmOut.margin
            /\ wmOut.rh + wmOut.margin <= wmOut.h =>
                  wmOut.y + wmOut.rh = wmOut.h - wmOut.margin

\* C6, witness: the raster fits across with its margin and is taller than
\* the image
C6_Witness ==
    /\ pc = "returned"
    /\ wmOut.margin = 1
    /\ wmOut.w = 4 /\ wmOut.rw = 2 /\ wmOut.x = 1
    /\ wmOut.rh > wmOut.h /\ wmOut.y = 0

\* C7 (as stated): for opacity in [0, 1], alpha = round(255 * opacity) and
\* shadow alpha = round(alpha * 0.5).
C7_AlphaRounded ==
    (pc = "returned" /\ wmIn.p.opacity \in 0..OpacityDen) =>
        /\ wmOut.alpha = Round(255 * wmIn.p.opacity, OpacityDen)
        /\ wmOut.shadow_alpha = Round(wmOut.alpha, 2)

\* C7 (amended): for opacity in [0, 1], alpha is 255 * opacity rounded down
\* (and lies in 0..255), and the shadow alpha is alpha / 2 rounded down.
C7_AlphaTruncated ==
    (pc = "returned" /\ wmIn.p.opacity \in 0..OpacityDen) =>
        /\ wmOut.alpha \in 0..255
        /\ wmOut.alpha * OpacityDen <= 255 * wmIn.p.opacity
        /\ 255 * wmIn.p.opacity < (wmOut.alpha + 1) * OpacityDen
        /\ 2 * wmOut.shadow_alpha <= wmOut.alpha
        /\ wmOut.alpha < 2 * wmOut.shadow_alpha + 2

\* C7, witness: half opacity on the 1/16 grid: 127.5 drawn as 127, its
\* shadow 63.5 as 63
C7_Witness ==
    /\ pc = "returned"
    /\ 2 * wmIn.p.opacity = OpacityDen
    /\ wmOut.alpha = 127
    /\ wmOut.shadow_alpha = 63

\* C9: the mode returned depends on the original mode alone: RGBA, RGB and L
\* come back as they are; any other mode comes back RGB, and as the RGBA
\* composite exactly when that conversion fails; the call does not raise for
\* such a mode (nor for RGBA).
C9_ModeRestored ==
    /\ pc = "returned" =>
          LET m == wmIn.img.mode
          IN  wmOut.mode =
                 IF m \in {"RGBA", "RGB", "L"} THEN m
                 ELSE IF wmOut.convertible THEN "RGB" ELSE "RGBA"
    /\ pc = "raised" => wmIn.img.mode \in {"RGB", "L"}

\* C9, witness: a palette image whose conversion to RGB fails comes back as
\* the RGBA composite
C9_Witness ==
    /\ pc = "returned"
    /\ wmIn.img.mode = "P"
    /\ ~ wmOut.convertible
    /\ wmOut.mode = "RGBA"

====
